---- MODULE Spec2Model ----
(***************************************************************************)
(* Model of the request-counter pipeline of BDNRelacionales_P1:            *)
(*   - the load generator (SamplesGenerator/createSamples.py, main.py and  *)
(*     MainServer/main.py): one tick per loop, INCRBY then EXPIRE of the   *)
(*     key requests:{ts};                                                  *)
(*   - the candle aggregator (MetricsGenerator/getCandles.py): get_candles *)
(*     and the Dash callback update_graph that calls it;                   *)
(*   - the Redis store they share, with key expiry driven by the clock;    *)
(*   - the web application (WebApp/app_with_cache.py, cache.py,            *)
(*     database.py): event tracking, the product handlers and RedisCache;  *)
(*   - the traffic simulator (WebApp/traffic_simulator.py).                *)
(*                                                                         *)
(* Real numbers are kept in fixed point: a quantity q stands for q/Q.      *)
(***************************************************************************)
EXTENDS Integers, Sequences, FiniteSets, TLC

VARIABLES
    now,            \* time.time() truncated to whole seconds
    store,          \* Redis: key -> [val, exp]; exp is <<>> or <<absolute second>>
    interval,       \* getCandles.py module global
    max_candles,    \* getCandles.py module global
    expire_seconds, \* the TTL the deployed generator passes to r.expire
    gen_pc,         \* position of the generator's main()
    gen_ts,         \* main(): ts
    n_requests,     \* main(): n_requests, as returned by generateSamples
    gen_exc,        \* exception that left main() uncaught ("none" if none)
    wake,           \* second at which time.sleep(1) may return
    ticks,          \* number of loop iterations started
    written,        \* history: seconds whose tick ran INCRBY and EXPIRE
    candles,        \* update_graph(): what get_candles returned (<<>> before)
    callback_exc,   \* exception that left update_graph ("none" if none)
    figure,         \* what update_graph returned: "none", "empty", "candlestick"
    calls,          \* number of update_graph calls made
    prev_candles,   \* history: what the call before the latest returned
    prev_call,      \* history: the call before the latest
    last_call,      \* history: the latest call of get_candles
    wrote,          \* history: a store write happened since the latest call
    read_failed,    \* history: a store read of the latest call raised
    jumps,          \* number of clock steps taken
    expired_read,   \* history: written seconds the latest call read as absent
    web_pc,         \* position of the web app's event tracking
    web_ts,         \* send_event_to_redis_local(): timestamp
    events,         \* number of events the web app started to track
    applied,        \* history: per live key, the sum of the increments made
    cache_connected,\* RedisCache.connected
    cache_data,     \* Redis Cloud: key -> serialized value
    cache_stats,    \* Redis Cloud: cache:stats:hits, :misses, :errors
    db,             \* products table: id -> row
    response,       \* what the latest request of the web app returned
    last_read,      \* history: per entry, what its latest read returned
    invalidated,    \* history: entries not read since 'all' was invalidated
    expiries,       \* number of cache keys whose TTL ran out
    requests,       \* number of requests the web app served
    get_calls,      \* history: calls of RedisCache.get since reset_stats
    faulted,        \* history: a store call of the cache failed since then
    plan,           \* the (sin, draw) pairs generateSamples is still to get
    sample,         \* the latest call of generateSamples
    total,          \* sum of the values generateSamples returned
    taken,          \* number of values generateSamples returned
    sim_pc,         \* position of simulate_realistic_traffic
    active_threads, \* self.active_threads: how many alive, how many finished
    user_counter,   \* self.user_counter
    target_users,   \* simulate_realistic_traffic(): target_users
    new_users       \* iterations left of `for _ in range(new_users)`

vars == <<now, store, interval, max_candles, expire_seconds, gen_pc, gen_ts,
          n_requests, gen_exc, wake, ticks, written, candles, callback_exc,
          figure, calls, prev_candles, prev_call, last_call, wrote,
          read_failed, jumps,
          expired_read, web_pc, web_ts, events, applied, cache_connected,
          cache_data, cache_stats, db, response, last_read, invalidated,
          expiries, requests, get_calls, faulted, plan, sample, total,
          taken, sim_pc, active_threads, user_counter, target_users,
          new_users>>

genVars == <<gen_pc, gen_ts, n_requests, gen_exc, wake, ticks, written>>
readerVars == <<candles, callback_exc, figure, calls, prev_candles, prev_call,
                last_call, read_failed, expired_read>>
configVars == <<interval, max_candles, expire_seconds>>
webVars == <<web_pc, web_ts, events>>
cacheVars == <<cache_connected, cache_data, cache_stats, db, response,
               last_read, invalidated, expiries, requests, get_calls,
               faulted>>
sampleVars == <<plan, sample, total, taken>>
simVars == <<sim_pc, active_threads, user_counter, target_users, new_users>>

----------------------------------------------------------------------------
(* Bounds of the model *)

\* fixed-point steps per half unit; Q steps make one unit
HalfSteps == 2
Q == 2 * HalfSteps
\* first second of the clock
StartTime == 200
\* steps the clock may take
MaxJumps == 3
\* loop iterations the generator may start
MaxTicks == 2
\* update_graph calls
MaxCalls == 2
\* events the web app may track
MaxEvents == 2
\* requests the web app may serve
MaxRequests == 2
\* cache keys whose TTL may run out
MaxExpiries == 1
\* number of consecutive seconds that hold a key in an initial store
KeyWindow == 2
\* largest counter value of an initial store
MaxVal == 2
\* seconds after StartTime at which the aggregator may be called
NowSpan == 5
\* a second, smaller configuration of the aggregator
SmallInterval == 2
SmallCandles == 3
\* widest spread of the draws of a sample, in units, on either side of the
\* mean of the distribution
MaxSpread == 3
\* virtual users the traffic simulator may create
MaxSessions == 27

----------------------------------------------------------------------------
(* Program constants *)

DefaultInterval == 5
DefaultMaxCandles == 20
media == 10
A == 5
ExpireCreateSamples == 120
ExpireMainServer == 30

----------------------------------------------------------------------------
(* Redis *)

\* f"requests:{ts}"
Key(ts) == <<"requests", ts>>

\* GET: <<>> is None, <<v>> the stored integer
Get(s, key) == IF key \in DOMAIN s THEN <<s[key].val>> ELSE <<>>

\* a write that stores the amount instead of adding it (SET)
IncrBy_Set(s, key, amount) ==
    [k \in DOMAIN s \cup {key} |->
        IF k = key
        THEN [val |-> amount,
              exp |-> IF key \in DOMAIN s THEN s[key].exp ELSE <<>>]
        ELSE s[k]]

\* INCRBY: creates the key at 0 when absent and keeps an existing expiry
IncrBy(s, key, amount) ==
    IF key \in DOMAIN s
    THEN [s EXCEPT ![key].val = @ + amount]
    ELSE [k \in DOMAIN s \cup {key} |->
            IF k = key THEN [val |-> amount, exp |-> <<>>] ELSE s[k]]

\* EXPIRE at second t: no effect on an absent key
Expire(s, key, seconds, t) ==
    IF key \in DOMAIN s
    THEN [s EXCEPT ![key].exp = <<t + seconds>>]
    ELSE s

\* the keys still alive at second t
Alive(s, t) == {k \in DOMAIN s : s[k].exp = <<>> \/ s[k].exp[1] > t}
Purge(s, t) == [k \in Alive(s, t) |-> s[k]]

\* history of a counter: the sum of the increments made to a key since it
\* was created
Tally(h, key, amount) ==
    [k \in DOMAIN h \cup {key} |->
        (IF k \in DOMAIN h THEN h[k] ELSE 0) + (IF k = key THEN amount ELSE 0)]

----------------------------------------------------------------------------
(* Load generator: generateSamples *)

\* rounding with ties away from zero (round-half-up)
Round_HalfUp(q) ==
    LET lo == q \div Q
        rem == q % Q
    IN  IF 2 * rem < Q THEN lo ELSE lo + 1

\* round(x) of a float x = q/Q: nearest integer, ties to the even one
Round(q) ==
    LET lo == q \div Q
        rem == q % Q
    IN  IF 2 * rem < Q THEN lo
        ELSE IF 2 * rem > Q THEN lo + 1
        ELSE IF lo % 2 = 0 THEN lo ELSE lo + 1

\* the sum passed on without the clamp at 0
MaxWithZero_NoClamp(arr) == [type |-> "ndarray", v |-> arr]

\* max(arr, 0) of a one-element ndarray arr = <<q>>: the builtin keeps its
\* first argument unless 0 > arr, and then returns the int 0 itself
MaxWithZero(arr) ==
    IF 0 > arr[1] THEN [type |-> "int", v |-> <<0>>]
                  ELSE [type |-> "ndarray", v |-> arr]

\* generateSamples(instant) with sin(instant) = sinq/Q and the draw of
\* normal(media, desv, 1) = <<drawq/Q>>.  valor[0] subscripts valor.
generateSamples(sinq, drawq) ==
    LET valor == MaxWithZero(<<A * sinq + media * Q + drawq>>)
    IN  IF valor.type = "int"
        THEN [exc |-> "TypeError", value |-> 0]
        ELSE [exc |-> "none", value |-> Round(valor.v[1])]

\* values of sin(instant), in steps of 1/Q
SinValues == {-Q, 0, Q}
\* draws of normal(media, desv, 1), in steps of 1/Q: the tail of the
\* distribution that brings the sum around zero
DrawValues == (-(media + A + 1) * Q) .. (-(media + A) * Q + Q - 1)

\* sin(instant) at four instants a quarter of a period apart
SinPeriod == <<0, Q, 0, -Q>>

\* the sums A*sin + media + draw around the halves 0.5, 1.5 and 2.5, and
\* the draw of normal(media, desv, 1) that makes such a sum
LowSums == (-Q) .. (3 * Q)
DrawFor(sinq, x) == x - media * Q - A * sinq

\* one call with a draw from the lower tail
TailPlans ==
    {<< <<sinq, DrawFor(sinq, x)>> >> : sinq \in SinValues, x \in LowSums}

\* calls at instants that cover a period evenly, each with every draw of
\* normal(media, desv, 1) up to d steps on either side of its mean media
PeriodPlan(d) ==
    [k \in 1..(Len(SinPeriod) * (2 * d + 1)) |->
        <<SinPeriod[((k - 1) % Len(SinPeriod)) + 1],
          media * Q + ((k - 1) \div Len(SinPeriod)) - d>>]

PeriodPlans == {PeriodPlan(d) : d \in 0..(MaxSpread * Q)}

NoSample == [valid |-> FALSE, sinq |-> 0, drawq |-> 0, exc |-> "none",
             value |-> 0]

NoSamples ==
    /\ plan = <<>>
    /\ sample = NoSample
    /\ total = 0
    /\ taken = 0

\* n_requests = generateSamples(ts), for the next instant and draw of the
\* plan; an exception ends the run
CallGenerateSamples ==
    /\ plan # <<>>
    /\ sample.exc = "none"
    /\ LET r == generateSamples(plan[1][1], plan[1][2])
       IN  /\ sample' = [valid |-> TRUE, sinq |-> plan[1][1],
                         drawq |-> plan[1][2], exc |-> r.exc,
                         value |-> r.value]
           /\ total' = IF r.exc = "none" THEN total + r.value ELSE total
           /\ taken' = IF r.exc = "none" THEN taken + 1 ELSE taken
    /\ plan' = Tail(plan)
    /\ UNCHANGED <<now, store, configVars, genVars, readerVars, wrote, jumps,
                   webVars, applied, cacheVars, simVars>>

----------------------------------------------------------------------------
(* Candle aggregator: get_candles *)

\* datetime.fromtimestamp(ts): the naive local time of a zone at a fixed
\* offset from UTC, in seconds
UtcOffset == 60 * 60
fromtimestamp(ts) == ts + UtcOffset

Max(S) == CHOOSE x \in S : \A y \in S : y <= x
Min(S) == CHOOSE x \in S : \A y \in S : x <= y

\* no alignment: the buckets end at the second of the call
aligned_now_Unaligned(ts_now) == ts_now

\* a window one bucket shorter
start_ts_OneShort(ts_now) ==
    ((ts_now \div interval) * interval) - ((max_candles - 1) * interval)

aligned_now(ts_now) == (ts_now \div interval) * interval
start_ts(ts_now) == aligned_now(ts_now) - (max_candles * interval)

\* range(start_ts, aligned_now + interval)
ReadRange(ts_now) == start_ts(ts_now) .. (aligned_now(ts_now) + interval - 1)

\* count = int(val) if val is not None else 0
CountOf(val) == IF val # <<>> THEN val[1] ELSE 0

\* the read loop with absent keys skipped instead of counted as 0
ReadAll_SkipAbsent(s, ts_now) ==
    LET lo == start_ts(ts_now)
        n == Cardinality(ReadRange(ts_now))
        every == [k \in 1..n |-> <<lo + k - 1, Get(s, Key(lo + k - 1))>>]
        found == SelectSeq(every, LAMBDA p : p[2] # <<>>)
    IN  [k \in 1..Len(found) |-> <<found[k][1], found[k][2][1]>>]

\* the read loop: all_counts, one (ts, count) per second of the range
ReadAll(s, ts_now) ==
    LET lo == start_ts(ts_now)
        n == Cardinality(ReadRange(ts_now))
    IN  [k \in 1..n |-> <<lo + k - 1, CountOf(Get(s, Key(lo + k - 1)))>>]

\* the group with its end included: candle_start <= ts <= candle_end
Group_InclusiveEnd(all_counts, candle_start, candle_end) ==
    SelectSeq(all_counts,
              LAMBDA p : candle_start <= p[1] /\ p[1] <= candle_end)

\* the group without its first second: candle_start < ts < candle_end
Group_ExclusiveStart(all_counts, candle_start, candle_end) ==
    SelectSeq(all_counts,
              LAMBDA p : candle_start < p[1] /\ p[1] < candle_end)

\* group of candle i (0-based): the pairs with candle_start <= ts < candle_end
Group(all_counts, candle_start, candle_end) ==
    SelectSeq(all_counts,
              LAMBDA p : candle_start <= p[1] /\ p[1] < candle_end)

\* the values of a group without its first element
GroupValues_DropFirst(group) ==
    IF Len(group) = 1 THEN {group[1][2]}
    ELSE {group[k][2] : k \in 2..Len(group)}

GroupValues(group) == {group[k][2] : k \in 1..Len(group)}

\* the candle with candle_start = start_ts + i, the width left out
Candle_NoScale(all_counts, lo, i) ==
    LET candle_start == lo + i
        candle_end == candle_start + interval
        group == Group(all_counts, candle_start, candle_end)
    IN  IF group = <<>>
        THEN [time |-> fromtimestamp(candle_end),
              open |-> 0, high |-> 0, low |-> 0, close |-> 0]
        ELSE [time |-> fromtimestamp(candle_end),
              open |-> group[1][2],
              high |-> Max(GroupValues(group)),
              low |-> Min(GroupValues(group)),
              close |-> group[Len(group)][2]]

Candle(all_counts, lo, i) ==
    LET candle_start == lo + (i * interval)
        candle_end == candle_start + interval
        group == Group(all_counts, candle_start, candle_end)
    IN  IF group = <<>>
        THEN [time |-> fromtimestamp(candle_end),
              open |-> 0, high |-> 0, low |-> 0, close |-> 0]
        ELSE [time |-> fromtimestamp(candle_end),
              open |-> group[1][2],
              high |-> Max(GroupValues(group)),
              low |-> Min(GroupValues(group)),
              close |-> group[Len(group)][2]]

\* get_candles() with a failing r.get caught inside the loop and its
\* second counted as 0
get_candles_CatchInLoop(s, ts_now, failing) ==
    LET all_counts == ReadAll(s, ts_now)
        lo == start_ts(ts_now)
    IN  [exc |-> "none",
         candles |-> [i \in 1..max_candles |->
                        Candle(all_counts, lo, i - 1)]]

\* get_candles() at second ts_now when r.get raises at the seconds in
\* `failing`: the exception leaves the function and nothing is returned.
\* ts_now // interval raises ZeroDivisionError when interval is 0; no other
\* value of interval or max_candles is rejected
get_candles(s, ts_now, failing) ==
    IF interval = 0
    THEN [exc |-> "ZeroDivisionError", candles |-> <<>>]
    ELSE IF ReadRange(ts_now) \cap failing # {}
    THEN [exc |-> "ConnectionError", candles |-> <<>>]
    ELSE LET all_counts == ReadAll(s, ts_now)
             lo == start_ts(ts_now)
         IN  [exc |-> "none",
              candles |-> [i \in 1..max_candles |->
                             Candle(all_counts, lo, i - 1)]]

----------------------------------------------------------------------------
(* The clock and key expiry *)

\* steps of the clock: a second, or up to the last second of the retention
Jumps == {1, expire_seconds - 1}

\* time passes; Redis drops the keys whose expiry is reached
ClockStep ==
    /\ jumps < MaxJumps
    /\ \E d \in Jumps :
         /\ now' = now + d
         /\ store' = Purge(store, now + d)
         /\ applied' = [k \in Alive(store, now + d) |-> applied[k]]
    /\ jumps' = jumps + 1
    /\ UNCHANGED <<configVars, genVars, readerVars, wrote, webVars,
                   cacheVars, sampleVars,
                   simVars>>

----------------------------------------------------------------------------
(* Load generator: main() *)

\* ts = int(time.time()); n_requests = generateSamples(ts)
\* an exception of generateSamples is not a KeyboardInterrupt: it leaves main
GenSample ==
    /\ gen_pc = "loop"
    /\ ticks < MaxTicks
    /\ ticks' = ticks + 1
    /\ gen_ts' = now
    /\ \E sinq \in SinValues, drawq \in DrawValues :
         LET r == generateSamples(sinq, drawq)
         IN  IF r.exc # "none"
             THEN /\ gen_pc' = "crashed"
                  /\ gen_exc' = r.exc
                  /\ UNCHANGED n_requests
             ELSE /\ gen_pc' = "incrby"
                  /\ n_requests' = r.value
                  /\ UNCHANGED gen_exc
    /\ UNCHANGED <<now, store, configVars, wake, written, readerVars, wrote,
                   jumps, webVars, applied, cacheVars, sampleVars,
                   simVars>>

\* r.incrby(key, n_requests)
GenIncrBy ==
    /\ gen_pc = "incrby"
    /\ store' = IncrBy(store, Key(gen_ts), n_requests)
    /\ applied' = Tally(applied, Key(gen_ts), n_requests)
    /\ gen_pc' = "expire"
    /\ wrote' = TRUE
    /\ UNCHANGED <<now, configVars, gen_ts, n_requests, gen_exc, wake, ticks,
                   written, readerVars, jumps, webVars, cacheVars, sampleVars,
                   simVars>>

\* r.expire(key, ...); print; time.sleep(1)
GenExpire ==
    /\ gen_pc = "expire"
    /\ store' = Expire(store, Key(gen_ts), expire_seconds, now)
    /\ gen_pc' = "sleep"
    /\ wake' = now + 1
    /\ written' = written \cup {gen_ts}
    /\ wrote' = TRUE
    /\ UNCHANGED <<now, configVars, gen_ts, n_requests, gen_exc, ticks,
                   readerVars, jumps, webVars, applied, cacheVars, sampleVars,
                   simVars>>

\* r.incrby or r.expire raises redis.ConnectionError: main() has no handler
\* for it (only `except KeyboardInterrupt`), so it leaves main
GenStoreFails ==
    /\ gen_pc \in {"incrby", "expire"}
    /\ gen_pc' = "crashed"
    /\ gen_exc' = "ConnectionError"
    /\ UNCHANGED <<now, store, configVars, gen_ts, n_requests, wake, ticks,
                   written, readerVars, wrote, jumps, webVars, applied,
                   cacheVars, sampleVars,
                   simVars>>

\* the loop going on without the sleep
GenWake_NoSleep ==
    /\ gen_pc = "sleep"
    /\ gen_pc' = "loop"
    /\ UNCHANGED <<now, store, configVars, gen_ts, n_requests, gen_exc, wake,
                   ticks, written, readerVars, wrote, jumps, webVars, applied,
                   cacheVars, sampleVars,
                   simVars>>

\* time.sleep(1) returns once a second has passed
GenWake ==
    /\ gen_pc = "sleep"
    /\ now >= wake
    /\ gen_pc' = "loop"
    /\ UNCHANGED <<now, store, configVars, gen_ts, n_requests, gen_exc, wake,
                   ticks, written, readerVars, wrote, jumps, webVars, applied,
                   cacheVars, sampleVars,
                   simVars>>

\* KeyboardInterrupt is raised between two bytecodes of the try block:
\* `except KeyboardInterrupt` prints and main returns
GenInterrupt ==
    /\ gen_pc \in {"loop", "incrby", "expire", "sleep"}
    /\ gen_pc' = "stopped"
    /\ UNCHANGED <<now, store, configVars, gen_ts, n_requests, gen_exc, wake,
                   ticks, written, readerVars, wrote, jumps, webVars, applied,
                   cacheVars, sampleVars,
                   simVars>>

----------------------------------------------------------------------------
(* Candle aggregator: update_graph *)

\* a call of get_candles: whether it returned, its ts_now, and whether the
\* store was written between the call before it and it
NoCall == [valid |-> FALSE, ts_now |-> 0, after_write |-> FALSE]

\* update_graph(n): candles = get_candles(); an exception of get_candles
\* leaves the callback, otherwise a figure is returned; what the call does
\* to the variables other than the store
CallGetCandles(failing) ==
    /\ calls < MaxCalls
    /\ calls' = calls + 1
    /\ read_failed' = (interval # 0 /\ ReadRange(now) \cap failing # {})
    /\ prev_candles' = candles
    /\ prev_call' = last_call
    /\ LET r == get_candles(store, now, failing)
       IN  IF r.exc # "none"
           THEN /\ callback_exc' = r.exc
                /\ candles' = <<>>
                /\ figure' = "none"
                /\ last_call' = NoCall
                /\ expired_read' = {}
           ELSE /\ callback_exc' = "none"
                /\ candles' = r.candles
                /\ figure' = IF r.candles = <<>> THEN "empty"
                                                 ELSE "candlestick"
                /\ last_call' = [valid |-> TRUE, ts_now |-> now,
                                 after_write |-> wrote]
                /\ expired_read' = {ts \in ReadRange(now) \cap written :
                                      Key(ts) \notin DOMAIN store}
    /\ wrote' = FALSE
    /\ UNCHANGED <<now, configVars, genVars, jumps, webVars, applied,
                   cacheVars, sampleVars,
                   simVars>>

\* the callback with a read that also removes the key it read (GETDEL)
update_graph_Getdel(failing) ==
    /\ CallGetCandles(failing)
    /\ store' = [k \in DOMAIN store \ {Key(ts) : ts \in ReadRange(now)} |->
                   store[k]]

\* get_candles only calls r.get, update_graph only builds the figure: the
\* store is left as it was
update_graph(failing) ==
    /\ CallGetCandles(failing)
    /\ UNCHANGED store

UpdateGraph == update_graph({})

\* the first, a middle or the last r.get of the read loop raises
FailingReads(ts_now) ==
    {start_ts(ts_now), aligned_now(ts_now), aligned_now(ts_now) + interval - 1}

UpdateGraphStoreFails == \E ts \in FailingReads(now) : update_graph({ts})

----------------------------------------------------------------------------
(* Web application: send_event_to_redis_local (app_with_cache.py) and      *)
(* track_event (app.py) count each event in requests:{ts} of Redis LOCAL   *)

\* redis_local.expire(key, 120)
WebExpireSeconds == 120

WebIdle ==
    /\ web_pc = "idle"
    /\ web_ts = 0
    /\ events = 0

\* ts = int(time.time()); key = f"requests:{ts}"; redis_local.incr(key)
WebIncr ==
    /\ web_pc = "idle"
    /\ events < MaxEvents
    /\ events' = events + 1
    /\ web_ts' = now
    /\ store' = IncrBy(store, Key(now), 1)
    /\ applied' = Tally(applied, Key(now), 1)
    /\ web_pc' = "expire"
    /\ wrote' = TRUE
    /\ UNCHANGED <<now, configVars, genVars, readerVars, jumps, cacheVars, sampleVars,
                   simVars>>

\* redis_local.expire(key, 120); the event list and the metrics counters
\* that follow are other keys; return True
WebExpire ==
    /\ web_pc = "expire"
    /\ store' = Expire(store, Key(web_ts), WebExpireSeconds, now)
    /\ web_pc' = "idle"
    /\ wrote' = TRUE
    /\ UNCHANGED <<now, configVars, genVars, readerVars, jumps, web_ts,
                   events, applied, cacheVars, sampleVars,
                   simVars>>

\* redis_local.incr or redis_local.expire raises: `except Exception` prints
\* and the function returns False
WebStoreFails ==
    /\ \/ web_pc = "idle" /\ events < MaxEvents /\ events' = events + 1
       \/ web_pc = "expire" /\ UNCHANGED events
    /\ web_pc' = "idle"
    /\ UNCHANGED <<now, store, configVars, genVars, readerVars, wrote, jumps,
                   web_ts, applied, cacheVars, sampleVars,
                   simVars>>

----------------------------------------------------------------------------
(* Web application: the products table (database.py)                       *)

\* rows of seed_products(): id, category and the views column
ProductIds == {1, 7}
Category(id) == IF id = 1 THEN "Smartphones" ELSE "Audio"
InitialDb == [id \in ProductIds |->
                [id |-> id, category |-> Category(id), views |-> 0]]

\* the ids and categories a request may name: of the table, or of no row
RequestIds == {7, 9}
RequestCategories == {"Audio", "Toys"}

\* the rows of a set of ids as a list, lowest id first
RECURSIVE RowsOf(_, _)
RowsOf(d, ids) ==
    IF ids = {} THEN <<>>
    ELSE LET id == CHOOSE x \in ids : \A y \in ids : x <= y
         IN  <<d[id]>> \o RowsOf(d, ids \ {id})

\* SELECT * FROM products WHERE id = ?: <<>> is None
db_get_product(d, product_id) ==
    IF product_id \in DOMAIN d THEN <<d[product_id]>> ELSE <<>>

\* SELECT * FROM products ORDER BY id
db_get_all_products(d) == RowsOf(d, DOMAIN d)

\* SELECT * FROM products WHERE category = ? ORDER BY name
db_get_products_by_category(d, category) ==
    RowsOf(d, {id \in DOMAIN d : d[id].category = category})

\* UPDATE products SET views = views + 1 WHERE id = ?
update_product_views(d, product_id) ==
    IF product_id \in DOMAIN d
    THEN [d EXCEPT ![product_id].views = @ + 1]
    ELSE d

----------------------------------------------------------------------------
(* Web application: RedisCache (cache.py)                                  *)

\* what a request reads: the list, a product, a category
Entries == {<<"all", 0>>} \cup {<<"product", id>> : id \in RequestIds}
           \cup {<<"category", c>> : c \in RequestCategories}

\* PREFIX_PRODUCTS_ALL, PREFIX_PRODUCT + id, PREFIX_CATEGORY + category
CacheKey(entry) ==
    IF entry[1] = "all" THEN <<"cache:products:all">>
    ELSE IF entry[1] = "product" THEN <<"cache:product:", entry[2]>>
    ELSE <<"cache:category:", entry[2]>>

\* json.dumps(value, default=str) and json.loads(value) of rows and lists
\* of rows, whose columns are numbers and strings
dumps(value) == [json |-> value]
loads(text) == text.json

\* which of the store calls of a request raise: none, one of them, or all
\* of them (the store is unreachable)
FailureModes(store_calls) ==
    {{}, store_calls} \cup {{c} : c \in store_calls}

\* return values: None, a bool, a decoded value, a dict with a status
RetNone == [type |-> "None", v |-> <<>>]
RetBool(b) == [type |-> "bool", v |-> <<b>>]
RetValue(x) == [type |-> "value", v |-> <<x>>]
RetDict(status) == [type |-> "dict", v |-> <<status>>]

NoStats == [hits |-> 0, misses |-> 0, errors |-> 0, invalidations |-> 0]

\* how a method ended: what it returned or that it raised, whether a store
\* call of it raised, how many store calls it made, and the store it leaves
Outcome(op, ret, raised, failed, n, data, stats) ==
    [op |-> op, ret |-> ret, raised |-> raised, failed |-> failed,
     calls |-> n, data |-> data, stats |-> stats]

\* the except branch of get and set: print, then
\* self.redis.incr('cache:stats:errors') outside any try, then return
OnError(op, ret, n, data, stats, F) ==
    IF "incr_errors" \in F
    THEN Outcome(op, RetNone, TRUE, TRUE, n + 1, data, stats)
    ELSE Outcome(op, ret, FALSE, TRUE, n + 1, data,
                 [stats EXCEPT !.errors = @ + 1])

\* get without the _is_available() guard: the store is called in any case
RedisCache_get_Unguarded(data, stats, key, F) ==
    IF "get" \in F
    THEN OnError("get", RetNone, 1, data, stats, F)
    ELSE IF "incr" \in F
    THEN OnError("get", RetNone, 2, data, stats, F)
    ELSE IF key \in DOMAIN data
    THEN Outcome("get", RetValue(loads(data[key])), FALSE, FALSE, 2, data,
                 [stats EXCEPT !.hits = @ + 1])
    ELSE Outcome("get", RetNone, FALSE, FALSE, 2, data,
                 [stats EXCEPT !.misses = @ + 1])

\* get without the count of a hit
RedisCache_get_HitNotCounted(data, stats, key, F) ==
    IF ~cache_connected
    THEN Outcome("get", RetNone, FALSE, FALSE, 0, data, stats)
    ELSE IF "get" \in F
    THEN OnError("get", RetNone, 1, data, stats, F)
    ELSE IF "incr" \in F
    THEN OnError("get", RetNone, 2, data, stats, F)
    ELSE IF key \in DOMAIN data
    THEN Outcome("get", RetValue(loads(data[key])), FALSE, FALSE, 1, data,
                 stats)
    ELSE Outcome("get", RetNone, FALSE, FALSE, 2, data,
                 [stats EXCEPT !.misses = @ + 1])

\* RedisCache.get(key) when the store calls named in F raise
RedisCache_get(data, stats, key, F) ==
    IF ~cache_connected
    THEN Outcome("get", RetNone, FALSE, FALSE, 0, data, stats)
    ELSE IF "get" \in F
    THEN OnError("get", RetNone, 1, data, stats, F)
    ELSE IF "incr" \in F
    THEN OnError("get", RetNone, 2, data, stats, F)
    ELSE IF key \in DOMAIN data
    THEN Outcome("get", RetValue(loads(data[key])), FALSE, FALSE, 2, data,
                 [stats EXCEPT !.hits = @ + 1])
    ELSE Outcome("get", RetNone, FALSE, FALSE, 2, data,
                 [stats EXCEPT !.misses = @ + 1])

\* a set that reports success and stores nothing
RedisCache_set_NoStore(data, stats, key, value, F) ==
    Outcome("set", RetBool(cache_connected), FALSE, FALSE, 0, data, stats)

\* RedisCache.set(key, value, ttl): setex stores the serialized value; the
\* ttl is the time after which CacheExpire may drop the key
RedisCache_set(data, stats, key, value, F) ==
    IF ~cache_connected
    THEN Outcome("set", RetBool(FALSE), FALSE, FALSE, 0, data, stats)
    ELSE IF "setex" \in F
    THEN OnError("set", RetBool(FALSE), 1, data, stats, F)
    ELSE Outcome("set", RetBool(TRUE), FALSE, FALSE, 1,
                 [k \in DOMAIN data \cup {key} |->
                    IF k = key THEN dumps(value) ELSE data[k]],
                 stats)

\* RedisCache.delete(key): redis.delete, then incr of the invalidations
\* counter; its except branch only prints and returns False
RedisCache_delete(data, stats, key, F) ==
    IF ~cache_connected
    THEN Outcome("delete", RetBool(FALSE), FALSE, FALSE, 0, data, stats)
    ELSE IF "delete" \in F
    THEN Outcome("delete", RetBool(FALSE), FALSE, TRUE, 1, data, stats)
    ELSE LET left == [k \in DOMAIN data \ {key} |-> data[k]]
         IN  IF "incr" \in F
             THEN Outcome("delete", RetBool(FALSE), FALSE, TRUE, 2, left,
                          stats)
             ELSE Outcome("delete", RetBool(TRUE), FALSE, FALSE, 2, left,
                          [stats EXCEPT !.invalidations = @ + 1])

\* RedisCache.invalidate_all_products(): delete(PREFIX_PRODUCTS_ALL)
invalidate_all_products(data, stats, F) ==
    RedisCache_delete(data, stats, CacheKey(<<"all", 0>>), F)

\* RedisCache.invalidate_product(product_id)
invalidate_product(data, stats, product_id, F) ==
    RedisCache_delete(data, stats, CacheKey(<<"product", product_id>>), F)

\* RedisCache.get_stats(): a dict in every case; four redis.get when the
\* cache is available
RedisCache_get_stats(data, stats, F) ==
    IF ~cache_connected
    THEN Outcome("get_stats", RetDict("disconnected"), FALSE, FALSE, 0,
                 data, stats)
    ELSE IF "get" \in F
    THEN Outcome("get_stats", RetDict("error"), FALSE, TRUE, 1, data, stats)
    ELSE Outcome("get_stats", RetDict("connected"), FALSE, FALSE, 4, data,
                 stats)

\* total = hits + misses of get_stats
total_requests(stats) == stats.hits + stats.misses

\* RedisCache.reset_stats(): one redis.delete of the four counters; False
\* without a connection and when the delete raises
RedisCache_reset_stats(data, stats, F) ==
    IF ~cache_connected
    THEN Outcome("reset_stats", RetBool(FALSE), FALSE, FALSE, 0, data, stats)
    ELSE IF "delete" \in F
    THEN Outcome("reset_stats", RetBool(FALSE), FALSE, TRUE, 1, data, stats)
    ELSE Outcome("reset_stats", RetBool(TRUE), FALSE, FALSE, 1, data,
                 NoStats)

\* RedisCache.get_info(): a dict in every case; redis.info() when the cache
\* is available
RedisCache_get_info(data, stats, F) ==
    IF ~cache_connected
    THEN Outcome("get_info", RetDict("disconnected"), FALSE, FALSE, 0,
                 data, stats)
    ELSE IF "info" \in F
    THEN Outcome("get_info", RetDict("error"), FALSE, TRUE, 1, data, stats)
    ELSE Outcome("get_info", RetDict("connected"), FALSE, FALSE, 1, data,
                 stats)

----------------------------------------------------------------------------
(* Web application: the handlers of app_with_cache.py                      *)

\* what a handler answers and leaves behind: the cache-side method
\* outcomes in call order, the statements run on the database, and whether
\* send_event_to_redis_local was called
Result(status, source, body, ops, d, db_reads, db_writes, tracked) ==
    [status |-> status, source |-> source, body |-> body, ops |-> ops,
     data |-> IF ops = <<>> THEN cache_data ELSE ops[Len(ops)].data,
     stats |-> IF ops = <<>> THEN cache_stats ELSE ops[Len(ops)].stats,
     db |-> d,
     db_reads |-> db_reads, db_writes |-> db_writes, tracked |-> tracked]

\* the query a miss runs: <<>> when get_product finds no row
DbRead(d, entry) ==
    IF entry[1] = "all" THEN <<db_get_all_products(d)>>
    ELSE IF entry[1] = "product" THEN db_get_product(d, entry[2])
    ELSE <<db_get_products_by_category(d, entry[2])>>

\* the body shared by get_products, get_product and
\* get_products_by_category: cache first, the database on None, then set.
\* get_product also counts the view, on a hit and on a miss; an exception
\* of a cache method reaches `except Exception`: 500
CacheAside(entry, F) ==
    LET key == CacheKey(entry)
        views == IF entry[1] = "product" THEN 1 ELSE 0
        viewed == IF entry[1] = "product"
                  THEN update_product_views(db, entry[2]) ELSE db
        g == RedisCache_get(cache_data, cache_stats, key, F)
        found == DbRead(db, entry)
        st == RedisCache_set(g.data, g.stats, key, found[1], F)
    IN  IF g.raised
        THEN Result(500, "none", <<>>, <<g>>, db, 0, 0, FALSE)
        ELSE IF g.ret.type = "value"
        THEN Result(200, "cache", g.ret.v, <<g>>, viewed, 0, views, TRUE)
        ELSE IF found = <<>>
        THEN Result(404, "none", <<>>, <<g>>, db, 1, 0, FALSE)
        ELSE IF st.raised
        THEN Result(500, "none", <<>>, <<g, st>>, viewed, 1, views, FALSE)
        ELSE Result(200, "database", found, <<g, st>>, viewed, 1, views,
                    TRUE)

\* the cache was connected and no store call of the methods raised
Clean(ops) ==
    /\ cache_connected
    /\ \A i \in 1..Len(ops) : ~ops[i].failed

NoResponse ==
    [kind |-> "none", entry |-> <<"all", 0>>, status |-> 0,
     source |-> "none", body |-> <<>>, ops |-> <<>>, db_reads |-> 0,
     db_writes |-> 0, cached |-> FALSE, stored |-> FALSE, after |-> <<>>,
     after_all |-> FALSE]

\* a request is answered: the handler's effects on the cache, the table
\* and, through send_event_to_redis_local, on requests:{ts} of Redis LOCAL
\* (a store failure there is WebStoreFails)
Respond(kind, entry, o) ==
    /\ requests < MaxRequests
    /\ requests' = requests + 1
    /\ cache_data' = o.data
    /\ cache_stats' = o.stats
    /\ db' = o.db
    /\ response' =
         [kind |-> kind, entry |-> entry, status |-> o.status,
          source |-> o.source, body |-> o.body,
          ops |-> [i \in 1..Len(o.ops) |->
                     [op |-> o.ops[i].op, ret |-> o.ops[i].ret,
                      raised |-> o.ops[i].raised,
                      failed |-> o.ops[i].failed,
                      calls |-> o.ops[i].calls]],
          db_reads |-> o.db_reads, db_writes |-> o.db_writes,
          cached |-> CacheKey(entry) \in DOMAIN cache_data,
          stored |-> CacheKey(entry) \in DOMAIN o.data,
          after |-> last_read[entry],
          after_all |-> entry \in invalidated]
    /\ IF o.tracked
       THEN /\ store' = Expire(IncrBy(store, Key(now), 1), Key(now),
                               WebExpireSeconds, now)
            /\ applied' = Tally(applied, Key(now), 1)
            /\ wrote' = TRUE
       ELSE UNCHANGED <<store, applied, wrote>>
    /\ get_calls' = get_calls
                    + Cardinality({i \in 1..Len(o.ops) : o.ops[i].op = "get"})
    /\ faulted' = (faulted \/ \E i \in 1..Len(o.ops) : o.ops[i].failed)
    /\ UNCHANGED <<now, configVars, genVars, readerVars, jumps, webVars,
                   cache_connected, expiries, sampleVars, simVars>>

\* the store calls of a read that may raise
ReadCalls == {"get", "incr", "setex", "incr_errors"}

\* one of the three read handlers
Read(entry) ==
    \E F \in FailureModes(ReadCalls) :
       LET o == CacheAside(entry, F)
       IN  /\ Respond("read", entry, o)
           /\ last_read' =
                IF o.status = 200
                THEN [last_read EXCEPT
                        ![entry] = <<[body |-> o.body[1],
                                      clean |-> Clean(o.ops)]>>]
                ELSE last_read
           /\ invalidated' = invalidated \ {entry}

\* GET /api/products
get_products == Read(<<"all", 0>>)

\* GET /api/products/<product_id>
get_product == \E product_id \in RequestIds : Read(<<"product", product_id>>)

\* GET /api/products/category/<category>
get_products_by_category ==
    \E category \in RequestCategories : Read(<<"category", category>>)

\* the store calls of an invalidation that may raise
InvalidateCalls == {"delete", "incr"}

\* POST /api/cache/invalidate: 'all' and 'product' answer success whatever
\* the cache method returned; any other target is answered 400
invalidate_cache ==
    \E target \in {"all", "product", "other"}, product_id \in RequestIds,
       F \in FailureModes(InvalidateCalls) :
       LET entry == IF target = "product" THEN <<"product", product_id>>
                                          ELSE <<"all", 0>>
           o == IF target = "all"
                THEN Result(200, "none", <<"All products cache invalidated">>,
                            <<invalidate_all_products(cache_data, cache_stats,
                                                      F)>>,
                            db, 0, 0, FALSE)
                ELSE IF target = "product"
                THEN Result(200, "none", <<"Product cache invalidated">>,
                            <<invalidate_product(cache_data, cache_stats,
                                                 product_id, F)>>,
                            db, 0, 0, FALSE)
                ELSE Result(400, "none", <<>>, <<>>, db, 0, 0, FALSE)
       IN  /\ Respond("invalidate", entry, o)
           /\ last_read' =
                IF target = "all" THEN [e \in Entries |-> <<>>]
                ELSE IF target = "product"
                THEN [last_read EXCEPT ![entry] = <<>>]
                ELSE last_read
           /\ invalidated' = IF target = "all" THEN Entries ELSE invalidated

\* the store calls of the statistics that may raise
StatsCalls == {"get", "info"}

\* GET /api/cache/stats: cache.get_stats() and cache.get_info()
cache_stats_view ==
    \E F \in FailureModes(StatsCalls) :
       LET a == RedisCache_get_stats(cache_data, cache_stats, F)
           b == RedisCache_get_info(a.data, a.stats, F)
       IN  /\ Respond("stats", <<"all", 0>>,
                      Result(200, "none", <<>>, <<a, b>>, db, 0, 0, FALSE))
           /\ UNCHANGED <<last_read, invalidated>>

\* cache.reset_stats() is called: the counters start again
reset_stats ==
    \E F \in FailureModes({"delete"}) :
       LET o == RedisCache_reset_stats(cache_data, cache_stats, F)
       IN  /\ requests < MaxRequests
           /\ requests' = requests + 1
           /\ cache_stats' = o.stats
           /\ get_calls' = IF o.ret = RetBool(TRUE) THEN 0 ELSE get_calls
           /\ faulted' = IF o.ret = RetBool(TRUE) THEN FALSE
                          ELSE (faulted \/ o.failed)
           /\ response' =
                [NoResponse EXCEPT
                   !.kind = "reset",
                   !.ops = <<[op |-> o.op, ret |-> o.ret,
                              raised |-> o.raised, failed |-> o.failed,
                              calls |-> o.calls]>>]
           /\ UNCHANGED <<now, store, configVars, genVars, readerVars, wrote,
                          jumps, webVars, applied, cache_connected,
                          cache_data, db, last_read, invalidated, expiries,
                          sampleVars, simVars>>

\* the TTL that setex gave to a key runs out: Redis drops the key
CacheExpire ==
    /\ expiries < MaxExpiries
    /\ expiries' = expiries + 1
    /\ \E entry \in Entries :
         /\ CacheKey(entry) \in DOMAIN cache_data
         /\ cache_data' = [k \in DOMAIN cache_data \ {CacheKey(entry)} |->
                             cache_data[k]]
         /\ last_read' = [last_read EXCEPT ![entry] = <<>>]
    /\ UNCHANGED <<now, store, configVars, genVars, readerVars, wrote, jumps,
                   webVars, applied, cache_connected, cache_stats, db,
                   response, invalidated, requests, get_calls, faulted,
                   sampleVars, simVars>>

\* the cache after warm_up(db.get_all_products()): the list, every product
\* and every category that has a product
WarmCache ==
    [k \in {CacheKey(e) : e \in {x \in Entries : DbRead(InitialDb, x) # <<>>
                                    /\ DbRead(InitialDb, x) # << <<>> >>}} |->
        LET e == CHOOSE x \in Entries : CacheKey(x) = k
        IN  dumps(DbRead(InitialDb, e)[1])]

\* the web application before its first request; the cache not connected
NoCache ==
    /\ cache_connected = FALSE
    /\ cache_data = [k \in {} |-> dumps(<<>>)]
    /\ cache_stats = NoStats
    /\ db = InitialDb
    /\ response = NoResponse
    /\ last_read = [e \in Entries |-> <<>>]
    /\ invalidated = {}
    /\ expiries = 0
    /\ requests = 0
    /\ get_calls = 0
    /\ faulted = FALSE

----------------------------------------------------------------------------
(* Traffic simulator: TrafficSimulator (traffic_simulator.py).  The list    *)
(* self.active_threads is kept as two counts: its threads that are alive   *)
(* and its threads whose simulate_session has returned                     *)

MIN_USERS == 5
MAX_USERS == 25

\* TrafficSimulator.__init__()
SimIdle ==
    /\ sim_pc = "idle"
    /\ active_threads = [alive |-> 0, finished |-> 0]
    /\ user_counter = 0
    /\ target_users = 0
    /\ new_users = 0

\* random.randint(a, b) of the three kinds of hour: working hours, the
\* evening, the rest of the day
TargetUsers ==
    ((MAX_USERS - 5) .. MAX_USERS) \cup ((MIN_USERS + 5) .. (MAX_USERS - 2))
        \cup (MIN_USERS .. (MIN_USERS + 5))

\* the web application, the generator and the aggregator are not part of
\* the simulator's state
OnlySimulator ==
    UNCHANGED <<now, store, configVars, genVars, readerVars, wrote, jumps,
                webVars, applied, cacheVars, sampleVars>>

\* simulate_realistic_traffic() is called: self.running = True
SimStart ==
    /\ sim_pc = "idle"
    /\ sim_pc' = "loop"
    /\ UNCHANGED <<active_threads, user_counter, target_users, new_users>>
    /\ OnlySimulator

\* a cycle that starts target_users threads whatever the number alive
SimCycle_NoSubtract ==
    /\ sim_pc = "loop"
    /\ active_threads' = [alive |-> active_threads.alive, finished |-> 0]
    /\ \E target \in TargetUsers :
         /\ target_users' = target
         /\ new_users' = target
         /\ sim_pc' = "create"
    /\ UNCHANGED user_counter
    /\ OnlySimulator

\* the head of a cycle: the threads that are not alive leave the list,
\* target_users is drawn, current_users = len(self.active_threads) and,
\* if current_users < target_users, new_users = target_users - current_users
SimCycle ==
    /\ sim_pc = "loop"
    /\ active_threads' = [alive |-> active_threads.alive, finished |-> 0]
    /\ \E target \in TargetUsers :
         /\ target_users' = target
         /\ IF active_threads.alive < target
            THEN /\ new_users' = target - active_threads.alive
                 /\ sim_pc' = "create"
            ELSE /\ new_users' = 0
                 /\ sim_pc' = "sleep"
    /\ UNCHANGED user_counter
    /\ OnlySimulator

\* thread = self.create_user(); self.active_threads.append(thread): the
\* counter goes up, the thread is started and joins the list
create_user ==
    /\ sim_pc = "create"
    /\ user_counter < MaxSessions
    /\ user_counter' = user_counter + 1
    /\ active_threads' = [active_threads EXCEPT !.alive = @ + 1]
    /\ new_users' = new_users - 1
    /\ sim_pc' = IF new_users = 1 THEN "sleep" ELSE "create"
    /\ UNCHANGED target_users
    /\ OnlySimulator

\* time.sleep(random.uniform(3, 10)) returns
SimSleep ==
    /\ sim_pc = "sleep"
    /\ sim_pc' = "loop"
    /\ UNCHANGED <<active_threads, user_counter, target_users, new_users>>
    /\ OnlySimulator

\* simulate_session of a virtual user returns: its thread is not alive any
\* more and stays in the list until the next cycle
ThreadFinishes ==
    /\ active_threads.alive > 0
    /\ active_threads' = [alive |-> active_threads.alive - 1,
                          finished |-> active_threads.finished + 1]
    /\ UNCHANGED <<sim_pc, user_counter, target_users, new_users>>
    /\ OnlySimulator

\* the duration is over at the head of a cycle, or KeyboardInterrupt is
\* raised anywhere in the try block: finally sets self.running = False
SimStop ==
    /\ sim_pc \in {"loop", "create", "sleep"}
    /\ sim_pc' = "done"
    /\ UNCHANGED <<active_threads, user_counter, target_users, new_users>>
    /\ OnlySimulator

----------------------------------------------------------------------------
(* The deployed system: a generator, the aggregator, the clock *)

EmptyStore == [k \in {} |-> [val |-> 0, exp |-> <<>>]]

Init ==
    /\ now = StartTime
    /\ store = EmptyStore
    /\ interval = DefaultInterval
    /\ max_candles = DefaultMaxCandles
    /\ expire_seconds \in {ExpireCreateSamples, ExpireMainServer}
    /\ gen_pc = "loop"
    /\ gen_ts = 0
    /\ n_requests = 0
    /\ gen_exc = "none"
    /\ wake = 0
    /\ ticks = 0
    /\ written = {}
    /\ candles = <<>>
    /\ callback_exc = "none"
    /\ figure = "none"
    /\ calls = 0
    /\ prev_candles = <<>>
    /\ prev_call = NoCall
    /\ last_call = NoCall
    /\ wrote = FALSE
    /\ read_failed = FALSE
    /\ jumps = 0
    /\ expired_read = {}
    /\ WebIdle
    /\ applied = [k \in DOMAIN store |-> store[k].val]
    /\ NoCache
    /\ NoSamples
    /\ SimIdle

Next ==
    \/ ClockStep
    \/ GenSample
    \/ GenIncrBy
    \/ GenExpire
    \/ GenStoreFails
    \/ GenWake
    \/ GenInterrupt
    \/ UpdateGraph
    \/ UpdateGraphStoreFails

Spec == Init /\ [][Next]_vars

----------------------------------------------------------------------------
(* The aggregator alone, over the stores and times it may be called with *)

Configs == {<<DefaultInterval, DefaultMaxCandles>>,
            <<SmallInterval, SmallCandles>>}

\* where a run of stored seconds starts, counted from start_ts: around the
\* start of the range, across the first bucket edge, around aligned_now
Offsets == {-1, interval - 2, max_candles * interval - 2,
            max_candles * interval - 1}

\* KeyWindow consecutive seconds from second w on, each absent (-1) or
\* holding a counter in 0..MaxVal with the generator's retention
WindowStore(w, f) ==
    [k \in {Key(w + j) : j \in {i \in 0..(KeyWindow - 1) : f[i] >= 0}} |->
        [val |-> f[k[2] - w], exp |-> <<k[2] + ExpireCreateSamples>>]]

\* requests:100..104 = 3, 7, 2, 9, 1
ExampleValues == <<3, 7, 2, 9, 1>>
ExampleStore ==
    [k \in {Key(100 + j) : j \in 0..4} |->
        [val |-> ExampleValues[k[2] - 99], exp |-> <<k[2] + ExpireCreateSamples>>]]

\* nothing but the aggregator runs: the generator is stopped and the web
\* application serves no request
OnlyAggregator ==
    /\ expire_seconds = ExpireCreateSamples
    /\ gen_pc = "stopped"
    /\ gen_ts = 0
    /\ n_requests = 0
    /\ gen_exc = "none"
    /\ wake = 0
    /\ ticks = 0
    /\ written = {}
    /\ candles = <<>>
    /\ callback_exc = "none"
    /\ figure = "none"
    /\ calls = 0
    /\ prev_candles = <<>>
    /\ prev_call = NoCall
    /\ last_call = NoCall
    /\ wrote = FALSE
    /\ read_failed = FALSE
    /\ jumps = 0
    /\ expired_read = {}
    /\ WebIdle
    /\ applied = [k \in DOMAIN store |-> store[k].val]
    /\ NoCache
    /\ SimIdle

InitCandles ==
    /\ \E cfg \in Configs : interval = cfg[1] /\ max_candles = cfg[2]
    /\ now \in StartTime..(StartTime + NowSpan)
    /\ \/ \E off \in Offsets, f \in [0..(KeyWindow - 1) -> -1..MaxVal] :
            store = WindowStore(start_ts(now) + off, f)
       \/ store = ExampleStore
    /\ OnlyAggregator
    /\ NoSamples

NextCandles ==
    \/ UpdateGraph
    \/ UpdateGraphStoreFails

SpecCandles == InitCandles /\ [][NextCandles]_vars

----------------------------------------------------------------------------
(* The aggregator started with an interval or a max_candles that is zero   *)
(* or negative: the module assigns both and checks neither                 *)

BadConfigs == {<<0, DefaultMaxCandles>>, <<-DefaultInterval, DefaultMaxCandles>>,
               <<DefaultInterval, 0>>, <<DefaultInterval, -1>>}

InitConfig ==
    /\ \E cfg \in BadConfigs : interval = cfg[1] /\ max_candles = cfg[2]
    /\ now \in StartTime..(StartTime + NowSpan)
    /\ \/ \E f \in [0..(KeyWindow - 1) -> -1..MaxVal] :
            store = WindowStore(now - 1, f)
       \/ store = ExampleStore
    /\ OnlyAggregator
    /\ NoSamples

NextConfig == UpdateGraph

SpecConfig == InitConfig /\ [][NextConfig]_vars

----------------------------------------------------------------------------
(* The writers of the counters: the generator and the web application's    *)
(* event tracking, on the same Redis LOCAL, with the clock                 *)

\* createSamples.py and the web application: both keep a counter 120 s
InitWriters == Init /\ expire_seconds = ExpireCreateSamples

NextWriters ==
    \/ ClockStep
    \/ GenSample
    \/ GenIncrBy
    \/ GenExpire
    \/ GenWake
    \/ WebIncr
    \/ WebExpire

SpecWriters == InitWriters /\ [][NextWriters]_vars

----------------------------------------------------------------------------
(* The aggregator called between the steps of the writers, within one      *)
(* second of the clock                                                     *)

NextReadWrite ==
    \/ GenSample
    \/ GenIncrBy
    \/ GenExpire
    \/ WebIncr
    \/ WebExpire
    \/ WebStoreFails
    \/ UpdateGraph

SpecReadWrite == InitWriters /\ [][NextReadWrite]_vars

----------------------------------------------------------------------------
(* A tick of MainServer's generator, the web application's events and the  *)
(* clock: counters are written, expire, and come into the candles' range   *)

InitCounters == Init /\ expire_seconds = ExpireMainServer

NextCounters ==
    \/ ClockStep
    \/ GenSample
    \/ GenIncrBy
    \/ GenExpire
    \/ WebIncr
    \/ WebExpire

SpecCounters == InitCounters /\ [][NextCounters]_vars

----------------------------------------------------------------------------
(* The web application's product requests, cache connected or not          *)

InitCache ==
    /\ now = StartTime
    /\ store = EmptyStore
    /\ interval = DefaultInterval
    /\ max_candles = DefaultMaxCandles
    /\ expire_seconds = ExpireCreateSamples
    /\ gen_pc = "stopped"
    /\ gen_ts = 0
    /\ n_requests = 0
    /\ gen_exc = "none"
    /\ wake = 0
    /\ ticks = 0
    /\ written = {}
    /\ candles = <<>>
    /\ callback_exc = "none"
    /\ figure = "none"
    /\ calls = 0
    /\ prev_candles = <<>>
    /\ prev_call = NoCall
    /\ last_call = NoCall
    /\ wrote = FALSE
    /\ read_failed = FALSE
    /\ jumps = 0
    /\ expired_read = {}
    /\ WebIdle
    /\ applied = [k \in DOMAIN store |-> store[k].val]
    /\ cache_connected \in BOOLEAN
    /\ cache_data \in {[k \in {} |-> dumps(<<>>)], WarmCache}
    /\ cache_stats = NoStats
    /\ db = InitialDb
    /\ response = NoResponse
    /\ last_read = [e \in Entries |-> <<>>]
    /\ invalidated = {}
    /\ expiries = 0
    /\ requests = 0
    /\ get_calls = 0
    /\ faulted = FALSE
    /\ NoSamples
    /\ SimIdle

NextCache ==
    \/ get_products
    \/ get_product
    \/ get_products_by_category
    \/ invalidate_cache
    \/ cache_stats_view
    \/ reset_stats
    \/ CacheExpire

SpecCache == InitCache /\ [][NextCache]_vars

----------------------------------------------------------------------------
(* Properties of get_candles, checked under SpecCandles, where the store   *)
(* is the one the latest call read                                         *)

\* the stored counter of second ts, an absent key counting as 0
Stored(ts) == IF Key(ts) \in DOMAIN store THEN store[Key(ts)].val ELSE 0

\* the seconds of the i-th returned candle (1-based) of the latest call
BucketStart(i) == start_ts(last_call.ts_now) + (i - 1) * interval
Bucket(i) == BucketStart(i) .. (BucketStart(i) + interval - 1)

\* C1: with interval = 5 and max_candles = 20, whatever the time and the
\* store, get_candles returns exactly 20 candles, oldest first, whose
\* end-times increase by exactly 5 seconds from one candle to the next.
C1_TwentyCandlesFiveApart ==
    (interval = 5 /\ max_candles = 20 /\ last_call.valid) =>
        /\ Len(candles) = 20
        /\ \A i \in 1..19 : candles[i + 1].time - candles[i].time = 5
        /\ \A i \in 1..20 : \A j \in 1..20 :
              i < j => candles[i].time < candles[j].time

C1_Witness ==
    /\ interval = 5 /\ max_candles = 20 /\ last_call.valid
    /\ last_call.ts_now % 5 # 0
    /\ DOMAIN store # {}
    /\ Len(candles) = 20

\* C2: every returned candle has low <= min(open, close) and
\* high >= max(open, close), hence low <= high.
C2_LowHighEncloseOpenClose ==
    last_call.valid =>
        \A i \in 1..Len(candles) :
            /\ candles[i].low <= candles[i].open
            /\ candles[i].low <= candles[i].close
            /\ candles[i].high >= candles[i].open
            /\ candles[i].high >= candles[i].close
            /\ candles[i].low <= candles[i].high

\* a bucket whose open lies strictly between its low and its high
C2_Witness ==
    /\ last_call.valid
    /\ \E i \in 1..Len(candles) :
          /\ candles[i].low < candles[i].open
          /\ candles[i].open < candles[i].high
          /\ candles[i].close < candles[i].high

\* C3: for every returned bucket, open is the value of its earliest second,
\* close that of its latest second, high the maximum and low the minimum
\* over exactly the seconds of the bucket, as the store held them when read.
C3_OhlcOfTheBucket ==
    last_call.valid =>
        \A i \in 1..Len(candles) :
            /\ candles[i].time = fromtimestamp(BucketStart(i) + interval)
            /\ candles[i].open = Stored(BucketStart(i))
            /\ candles[i].close = Stored(BucketStart(i) + interval - 1)
            /\ candles[i].high = Max({Stored(ts) : ts \in Bucket(i)})
            /\ candles[i].low = Min({Stored(ts) : ts \in Bucket(i)})

\* the scenario 3, 7, 2, 9, 1 at seconds 100..104 with interval 5
C3_Witness ==
    /\ last_call.valid
    /\ interval = 5
    /\ store = ExampleStore
    /\ BucketStart(1) = 100
    /\ candles[1].open = 3 /\ candles[1].high = 9
    /\ candles[1].low = 1 /\ candles[1].close = 1

\* a returned candle whose bucket holds second ts, with the 0 of ts in it
InBucketAsZero(ts) ==
    \E i \in 1..Len(candles) :
        /\ candles[i].time = fromtimestamp(BucketStart(i) + interval)
        /\ ts \in Bucket(i)
        /\ candles[i].low <= 0
        /\ (ts = BucketStart(i) => candles[i].open = 0)
        /\ (ts = BucketStart(i) + interval - 1 => candles[i].close = 0)

C7_ReadFailureAborts ==
    read_failed =>
        /\ callback_exc = "ConnectionError"
        /\ candles = <<>>
        /\ figure = "none"
        /\ ~last_call.valid

\* a read fails in the call that follows one that returned candles
C7_Witness ==
    /\ read_failed
    /\ callback_exc = "ConnectionError"
    /\ prev_call.valid
    /\ prev_candles # <<>>

----------------------------------------------------------------------------
(* Properties of the deployed system, checked under Spec *)

\* C5: whatever the instant and the random draw, also a draw that makes
\* A*sin(t) + media + noise negative, generateSamples returns an integer
\* >= 0 and does not raise.
C5_SampleNeverRaises ==
    /\ gen_exc # "TypeError"
    /\ n_requests >= 0

\* C6: when incrby or expire fails because the store is unreachable, the
\* tick is skipped and the generator neither crashes nor stops looping.
C6_StoreFailureSkipsTick ==
    gen_exc = "ConnectionError" => gen_pc \in {"loop", "sleep"}

\* C8: once the interrupt has stopped the generator, every tick is applied
\* completely or not at all: no counter is left incremented without its
\* expiry.
C8_InterruptLeavesNoHalfTick ==
    gen_pc = "stopped" => \A k \in DOMAIN store : store[k].exp # <<>>

\* C9: a counter the generator wrote for a second of the read range
\* [start_ts, aligned_now + interval) has not expired when get_candles
\* reads it.
C9_RetentionCoversWindow ==
    last_call.valid => expired_read = {}

\* C10: two consecutive calls of get_candles in the same interval window,
\* with no write to the store between them, return the same candles, the
\* most recent one possibly excepted.
C10_SameWindowSameCandles ==
    (/\ prev_call.valid
     /\ last_call.valid
     /\ ~last_call.after_write
     /\ aligned_now(prev_call.ts_now) = aligned_now(last_call.ts_now)) =>
        /\ Len(candles) = Len(prev_candles)
        /\ \A i \in 1..(Len(candles) - 1) : candles[i] = prev_candles[i]

----------------------------------------------------------------------------
(* Properties of the counters under their writers, checked under           *)
(* SpecWriters                                                             *)

\* C11: with the generator and the web application incrementing the key
\* of the same second in any interleaving, no increment is lost: the value
\* of every counter is the sum of the increments made to it.
C11_NoIncrementLost ==
    /\ DOMAIN applied = DOMAIN store
    /\ \A k \in DOMAIN store : store[k].val = applied[k]

\* the generator added 1 and the web application added 1 to the same key
C11_Witness ==
    /\ gen_pc \in {"expire", "sleep"}
    /\ n_requests = 1
    /\ web_pc = "expire"
    /\ web_ts = gen_ts
    /\ Key(gen_ts) \in DOMAIN store
    /\ store[Key(gen_ts)].val = 2

\* the first second the generator ticked in
FirstTick == Min(written \cup {gen_ts})

\* C15: while the generator runs and the store is reachable, there is a
\* tick for every wall-clock second between its start and its stop: no
\* second between two of its ticks is left without a tick.
C15_TickEverySecond ==
    (ticks >= 1 /\ gen_pc \in {"loop", "incrby", "expire", "sleep"}) =>
        \A second \in FirstTick..gen_ts : second \in written \cup {gen_ts}

\* C16: a single generator increments the counter of any given second at
\* most once: the timestamp of a tick is greater than the timestamp of
\* every tick before it.
C16_TickTimestampsIncrease ==
    gen_pc \in {"incrby", "expire"} => \A ts \in written : ts < gen_ts

\* the second tick is about to write, after the first one was written
C16_Witness ==
    /\ ticks = 2
    /\ gen_pc = "incrby"
    /\ written # {}

----------------------------------------------------------------------------
(* Properties of the aggregator's configuration, checked under SpecConfig  *)

----------------------------------------------------------------------------
(* Properties of the aggregator between the writers' steps, checked under  *)
(* SpecReadWrite                                                           *)

\* C13: get_candles is read-only: a call, also between the incr and the
\* expire of a writer's tick, creates no key, changes no value, deletes no
\* key and sets or moves no expiry.
C13_GetCandlesReadOnly ==
    [][calls' # calls => store' = store]_vars

\* a call returned between the incrby and the expire of a tick whose key
\* it read, and the key is still there without its expiry
C13_Witness ==
    /\ last_call.valid
    /\ last_call.after_write
    /\ ~wrote
    /\ gen_pc = "expire"
    /\ gen_ts \in ReadRange(last_call.ts_now)
    /\ Key(gen_ts) \in DOMAIN store
    /\ store[Key(gen_ts)].exp = <<>>

----------------------------------------------------------------------------
(* Properties of the counters' values, checked under SpecCounters          *)

\* the candles get_candles computes from the store as it is now
CandlesNow == get_candles(store, now, {}).candles

\* C14: in every state reached by generator ticks, web-app increments and
\* expirations, every counter holds an integer that is not negative (an
\* absent key counting as 0), and so every field of every candle computed
\* from the store is not negative.
C14_CountersNeverNegative ==
    /\ \A k \in DOMAIN store : store[k].val \in Nat
    /\ LET computed == CandlesNow
       IN  \A i \in 1..Len(computed) :
              /\ computed[i].open \in Nat
              /\ computed[i].high \in Nat
              /\ computed[i].low \in Nat
              /\ computed[i].close \in Nat

\* both writers ran, a counter was raised to 2 and a candle shows it, and
\* the counter the generator wrote has expired
C14_Witness ==
    /\ ticks >= 1
    /\ events >= 1
    /\ \E i \in 1..Len(CandlesNow) : CandlesNow[i].high = 2
    /\ \E ts \in written : Key(ts) \notin DOMAIN store

----------------------------------------------------------------------------
(* Properties of the web application's cache, checked under SpecCache.     *)
(* A request for a product the table does not have is answered 404 and     *)
(* reads no entry.                                                         *)

\* the latest request read an entry that exists
ReadAnswered == response.kind = "read" /\ response.status # 404

Ops == {response.ops[i] : i \in 1..Len(response.ops)}

\* C18: RedisCache.get and RedisCache.set never raise to their caller:
\* when a store call of theirs fails, get returns None and set returns
\* False.
C18_GetSetNeverRaise ==
    \A o \in Ops :
       o.op \in {"get", "set"} =>
          /\ ~o.raised
          /\ o.failed =>
                o.ret.type = (IF o.op = "get" THEN "None" ELSE "bool")
          /\ (o.failed /\ o.op = "set") => o.ret = RetBool(FALSE)

\* C19 as stated: when the cache connection was not established at
\* construction, every RedisCache operation returns None or False without
\* calling the store, and every product request is answered from the
\* database with source 'database'.
C19_NoCacheNoneOrFalse ==
    ~cache_connected =>
        /\ \A o \in Ops :
              /\ o.calls = 0
              /\ ~o.raised
              /\ o.ret.type \in {"None", "bool"}
              /\ o.ret.type = "bool" => o.ret = RetBool(FALSE)
        /\ ReadAnswered => response.source = "database"

\* C19 amended: as stated, except that get_stats and get_info return a
\* dict whose status is 'disconnected' instead of None or False.
C19_NoCacheNoStoreCall ==
    ~cache_connected =>
        /\ \A o \in Ops :
              /\ o.calls = 0
              /\ ~o.raised
              /\ IF o.op \in {"get_stats", "get_info"}
                 THEN o.ret = RetDict("disconnected")
                 ELSE /\ o.ret.type \in {"None", "bool"}
                      /\ o.ret.type = "bool" => o.ret = RetBool(FALSE)
        /\ ReadAnswered =>
              /\ response.source = "database"
              /\ response.status = 200
              /\ response.db_reads = 1

\* without a connection, a product the store of the cache still holds was
\* read from the database
C19_Witness ==
    /\ ~cache_connected
    /\ ReadAnswered
    /\ response.entry = <<"product", 7>>
    /\ response.cached
    /\ response.source = "database"
    /\ \E o \in Ops : o.op = "get" /\ o.ret = RetNone /\ o.calls = 0
    /\ \E o \in Ops : o.op = "set" /\ o.ret = RetBool(FALSE) /\ o.calls = 0

\* C20: after an invalidation with target 'all' was answered 'All products
\* cache invalidated', no product data is served from the cache: the next
\* read of the list, of any product and of any category is not answered
\* from the cache.
C20_InvalidateAllEmptiesCache ==
    (ReadAnswered /\ response.after_all) => response.source # "cache"

----------------------------------------------------------------------------
(* generateSamples alone, over runs of instants and draws                  *)

InitSamples ==
    /\ now = StartTime
    /\ store = EmptyStore
    /\ interval = DefaultInterval
    /\ max_candles = DefaultMaxCandles
    /\ OnlyAggregator
    /\ plan \in TailPlans \cup PeriodPlans
    /\ sample = NoSample
    /\ total = 0
    /\ taken = 0

NextSamples == CallGenerateSamples

SpecSamples == InitSamples /\ [][NextSamples]_vars

\* the float that generateSamples passed to round in its latest call
Rounded == A * sample.sinq + media * Q + sample.drawq

PeriodSampled ==
    /\ plan = <<>>
    /\ sample.exc = "none"
    /\ taken >= Len(SinPeriod)

\* C22: over samples at instants that cover a full period evenly, the
\* sample mean is mu (10 with the defaults) within a tolerance of one
\* request: the noise term adds no offset to the trend A*sin(t) + mu.
C22_MeanIsMu ==
    PeriodSampled =>
        /\ total - taken * media <= taken
        /\ taken * media - total <= taken

----------------------------------------------------------------------------
(* Properties of the buckets of get_candles, checked under SpecBuckets:    *)
(* the aggregator alone, all of whose store reads succeed                  *)

NextBuckets == UpdateGraph

SpecBuckets == InitCandles /\ [][NextBuckets]_vars

\* the Unix time of a datetime that fromtimestamp made
timestamp(dt) == dt - UtcOffset

\* the buckets of a call at second t on store s that returned cs: for each
\* candle its stamped end-time and the seconds of the group it was built
\* from
BucketsOf(s, t, cs) ==
    LET all_counts == ReadAll(s, t)
        lo == start_ts(t)
    IN  [i \in 1..Len(cs) |->
            LET group == Group(all_counts, lo + (i - 1) * interval,
                               lo + i * interval)
            IN  [end |-> timestamp(cs[i].time),
                 size |-> Len(group),
                 seconds |-> {group[k][1] : k \in 1..Len(group)}]]

\* the buckets of the latest call
Buckets == BucketsOf(store, last_call.ts_now, candles)

\* the seconds the latest call read
ReadSeconds ==
    LET all_counts == ReadAll(store, last_call.ts_now)
    IN  {all_counts[k][1] : k \in 1..Len(all_counts)}

\* floor(now / interval) * interval and the start of the window, from the
\* time of the latest call
AlignedNow == (last_call.ts_now \div interval) * interval
WindowStart == AlignedNow - max_candles * interval

\* max_candles buckets, consecutive, not overlapping, each of width
\* interval and ending at its stamped end-time
ConsecutiveBuckets(b) ==
    /\ Len(b) = max_candles
    /\ \A i \in 1..Len(b) :
          b[i].seconds = (b[i].end - interval) .. (b[i].end - 1)
    /\ \A i \in 1..(Len(b) - 1) : b[i + 1].end = b[i].end + interval
    /\ \A i \in 1..Len(b) : \A j \in 1..Len(b) :
          i # j => b[i].seconds \cap b[j].seconds = {}

Edges(s, t) ==
    LET b == BucketsOf(s, t, get_candles(s, t, {}).candles)
    IN  [i \in 1..Len(b) |-> <<b[i].end - b[i].size, b[i].end>>]

\* C24: bucket edges are anchored to multiples of interval whatever the
\* call time: every candle's start and its stamped end-time are multiples
\* of interval, and calls at two times with the same floor(now / interval)
\* produce the same sequence of bucket edges.
C24_EdgesAnchored ==
    last_call.valid =>
        LET b == Buckets
        IN  /\ \A i \in 1..Len(b) :
                  /\ b[i].end % interval = 0
                  /\ \A ts \in b[i].seconds : ts >= b[i].end - interval
                  /\ (b[i].end - interval) \in b[i].seconds
                  /\ (b[i].end - interval) % interval = 0
            /\ LET edges == [i \in 1..Len(b) |->
                                <<b[i].end - interval, b[i].end>>]
               IN  \A t \in {AlignedNow, AlignedNow + interval - 1} :
                      Edges(store, t) = edges

\* a call at the last second of an interval
C24_Witness ==
    /\ last_call.valid
    /\ last_call.ts_now = AlignedNow + interval - 1
    /\ AlignedNow # last_call.ts_now
    /\ Len(candles) = max_candles
    /\ timestamp(candles[max_candles].time) = AlignedNow

\* C25: for every positive interval and positive max_candles, every bucket
\* built by get_candles has exactly interval underlying seconds, so the
\* branch that emits an all-zero candle for an empty bucket is never taken.
C25_BucketsNeverEmpty ==
    (last_call.valid /\ interval > 0 /\ max_candles > 0) =>
        LET b == Buckets
        IN  /\ Len(b) = max_candles
            /\ \A i \in 1..Len(b) :
                  /\ b[i].size = interval
                  /\ b[i].seconds # {}

\* an all-zero candle of a bucket none of whose seconds has a key
C25_Witness ==
    /\ last_call.valid
    /\ interval > 0
    /\ max_candles > 0
    /\ DOMAIN store # {}
    /\ \E i \in 1..Len(candles) :
          /\ candles[i].high = 0
          /\ candles[i].low = 0
          /\ Buckets[i].size = interval
          /\ \A ts \in Buckets[i].seconds : Key(ts) \notin DOMAIN store

----------------------------------------------------------------------------
(* Properties of the retention of the counters, checked under Spec         *)

\* C26: storage of counters is bounded: in every reachable state, also
\* after a store failure or an interrupt between the increment and the
\* expire call of a writer, every existing counter key carries an expiry;
\* the only key without one is the key a writer has just incremented and
\* is about to expire.
C26_EveryCounterExpires ==
    \A k \in DOMAIN store :
        store[k].exp = <<>> =>
            \/ gen_pc = "expire" /\ k = Key(gen_ts)
            \/ web_pc = "expire" /\ k = Key(web_ts)

----------------------------------------------------------------------------
(* A tick of the generator and the dashboard whose dcc.Interval fires on   *)
(* time: the clock never gets further than one period past the latest call *)

\* dcc.Interval(interval=5000): seconds between two firings
TimerSeconds == 5

\* the second of the latest firing; the page is loaded at StartTime
Fired == IF last_call.valid THEN last_call.ts_now ELSE StartTime

\* time passing freely between the firings
ClockTimed_Untimed == ClockStep

\* time passes: a second, or up to the second at which the timer is due
ClockTimed ==
    /\ jumps < MaxJumps
    /\ \E d \in {1, Fired + TimerSeconds - now} :
         /\ d >= 1
         /\ now + d <= Fired + TimerSeconds
         /\ now' = now + d
         /\ store' = Purge(store, now + d)
         /\ applied' = [k \in Alive(store, now + d) |-> applied[k]]
    /\ jumps' = jumps + 1
    /\ UNCHANGED <<configVars, genVars, readerVars, wrote, webVars,
                   cacheVars, sampleVars, simVars>>

NextVisible ==
    \/ ClockTimed
    \/ GenSample
    \/ GenIncrBy
    \/ GenExpire
    \/ UpdateGraph

\* a step of update_graph, by what it does to the number of calls: the
\* only step that counts a call, possible as long as calls are left
TimerFires == calls < MaxCalls /\ calls' = calls + 1

\* the timer keeps firing: the callback is not put off for ever
SpecVisible ==
    InitWriters /\ [][NextVisible]_vars /\ WF_calls(TimerFires)

\* the seconds the clock of the model can reach
Seconds == StartTime .. (StartTime + MaxJumps * TimerSeconds)

\* the latest call returned a candle that covers second t and encloses the
\* counter of t
Visible(t) ==
    /\ last_call.valid
    /\ Key(t) \in DOMAIN store
    /\ \E i \in 1..Len(candles) :
          /\ t \in Bucket(i)
          /\ candles[i].low <= store[Key(t)].val
          /\ store[Key(t)].val <= candles[i].high

\* the bucket of second t is closed and a call is still to come
Due(t) ==
    /\ t \in written
    /\ now >= aligned_now(t) + interval
    /\ calls < MaxCalls

\* the newest candle of the latest call ends at aligned_now, and no second
\* from aligned_now on is in a returned bucket
InProgressHidden ==
    last_call.valid =>
        /\ candles # <<>>
        /\ timestamp(candles[Len(candles)].time) = AlignedNow
        /\ \A t \in Seconds :
              t >= AlignedNow => \A i \in 1..Len(candles) : t \notin Bucket(i)

\* C27: a sample written by the generator for second t is never visible
\* in the candles while t's bucket is in progress (the newest returned
\* candle ends at aligned_now), and it becomes visible: with get_candles
\* called at least once every interval seconds and the generator's
\* retention, once t's bucket is closed the next call returns a candle
\* covering t whose low <= value(t) <= high.
C27_VisibleOnceBucketCloses ==
    /\ []InProgressHidden
    /\ Due(gen_ts) ~> Visible(gen_ts)

\* the tick shows in the newest candle of a call made when its bucket has
\* closed, after a call that was made while the bucket was in progress
C27_Witness ==
    /\ gen_ts \in written
    /\ prev_call.valid
    /\ prev_call.ts_now >= gen_ts
    /\ prev_call.ts_now < aligned_now(gen_ts) + interval
    /\ Visible(gen_ts)
    /\ store[Key(gen_ts)].val > 0
    /\ gen_ts \in Bucket(max_candles)
    /\ candles[max_candles].high > 0
    /\ prev_candles[max_candles].high = 0

----------------------------------------------------------------------------
(* Properties of the cached products and of the cache statistics, checked  *)
(* under SpecCache                                                         *)

\* C28: a product returned from the cache by GET /api/products/<id> equals
\* the row the database would return at that moment: after any sequence of
\* product reads the cached product and the stored product do not differ.
\* The row is taken as the database holds it after the request or as it
\* held it before the request counted its own view.
C28_CachedProductIsStoredRow ==
    (/\ ReadAnswered
     /\ response.entry[1] = "product"
     /\ response.source = "cache") =>
        LET row == db[response.entry[2]]
        IN  \/ response.body = <<row>>
            \/ response.body = <<[row EXCEPT !.views = @ - response.db_writes]>>

\* C29: while the cache is available and no store call fails, every call
\* of RedisCache.get increments exactly one of the counters hits and
\* misses (hits when a value was found, misses otherwise), so after any
\* sequence of reads since the last reset_stats the total_requests of
\* get_stats, hits + misses, is the number of get calls.
C29_StatsCountGets ==
    /\ []((cache_connected /\ ~faulted) =>
             total_requests(cache_stats) = get_calls)
    /\ [][(cache_connected /\ ~faulted' /\ get_calls' = get_calls + 1) =>
             IF response'.cached
             THEN /\ cache_stats'.hits = cache_stats.hits + 1
                  /\ cache_stats'.misses = cache_stats.misses
             ELSE /\ cache_stats'.hits = cache_stats.hits
                  /\ cache_stats'.misses = cache_stats.misses + 1]_vars

\* a miss and then a hit, both counted, with no failure in between
C29_Witness ==
    /\ cache_connected
    /\ ~faulted
    /\ get_calls = 2
    /\ cache_stats.hits = 1
    /\ cache_stats.misses = 1
    /\ response.source = "cache"

----------------------------------------------------------------------------
(* The traffic simulator alone                                             *)

InitTraffic ==
    /\ now = StartTime
    /\ store = EmptyStore
    /\ interval = DefaultInterval
    /\ max_candles = DefaultMaxCandles
    /\ OnlyAggregator
    /\ NoSamples

NextTraffic ==
    \/ SimStart
    \/ SimCycle
    \/ create_user
    \/ SimSleep
    \/ ThreadFinishes
    \/ SimStop

SpecTraffic == InitTraffic /\ [][NextTraffic]_vars

\* C30: in simulate_realistic_traffic the number of virtual-user threads
\* alive at the same time never exceeds MAX_USERS (25): at each cycle the
\* finished threads are dropped and at most target_users - current_users
\* new ones are started, with target_users <= MAX_USERS.
C30_AtMostMaxUsersAlive ==
    /\ active_threads.alive <= MAX_USERS
    /\ target_users <= MAX_USERS
    /\ sim_pc = "create" =>
          active_threads.alive + active_threads.finished + new_users
              <= target_users

\* MAX_USERS threads are alive after finished ones were dropped and
\* replaced
C30_Witness ==
    /\ active_threads.alive = MAX_USERS
    /\ user_counter > MAX_USERS
    /\ sim_pc = "sleep"

====
